---- MODULE Spec2Model ----
(***************************************************************************)
(* A model of the crypt library (crypt.go): the whole-buffer codec         *)
(* Encrypt / Decrypt and the chunked stream Writer and Reader built on     *)
(* AES-256-GCM.  Bytes are naturals below 256, byte slices are sequences.  *)
(* Error values are strings, "nil" being Go's nil error.                   *)
(***************************************************************************)
EXTENDS Naturals, Sequences, FiniteSets

\* ------------------------------------------------------------------ bounds
\* longest plaintext handed to Encrypt
MaxLen == 3
\* number of distinct 32-byte keys
NumKeys == 2
\* number of distinct values the random source yields for a nonce
MaxNonces == 2

\* longest input handed to one Writer.Write call
MaxWrite == 3
\* Write calls made on one Writer
MaxCalls == 2
\* iterations of Write's loop followed within one call
MaxIter == 2
\* longest plaintext of a frame stream given to a Reader
MaxStream == 3
\* Read calls made on one Reader
MaxReads == 2

\* --------------------------------------------------------------- constants
\* gcm.NonceSize(): the standard GCM nonce length
NonceSize == 12
\* gcm.Overhead(): the GCM tag length
TagSize == 16
\* key *[32]byte
KeySize == 32

\* the bufSize NewReader and NewWriter use when given 0
DefaultBufSize == 1024

Keys == 1..NumKeys
\* the chunk sizes streams are opened with
ChunkSizes == {2, 3}
\* the byte values stream input is drawn from (the fresh buffer holds zeros)
StreamBytes == {1, 2}
\* the byte values plaintexts are drawn from
PlainBytes == {0, 1}
\* the bit positions a tampering flips
FlipBits == {0, 7}

\* ---------------------------------------------------------------- helpers
Min(a, b) == IF a < b THEN a ELSE b

Take(s, n) == SubSeq(s, 1, Min(n, Len(s)))

Drop(s, n) == SubSeq(s, n + 1, Len(s))

IsPrefix(s, t) == Len(s) <= Len(t) /\ SubSeq(t, 1, Len(s)) = s

RECURSIVE Pow2(_)
Pow2(k) == IF k = 0 THEN 1 ELSE 2 * Pow2(k - 1)

\* the byte b with bit k inverted
FlipBit(b, k) ==
    IF (b \div Pow2(k)) % 2 = 1 THEN b - Pow2(k) ELSE b + Pow2(k)

SeqsUpTo(S, n) == UNION {[1..k -> S] : k \in 0..n}

\* ------------------------------------------------------------------- AEAD
\* sum of s[i] * (off + i + j) over the sequence s
RECURSIVE WSum(_, _, _, _)
WSum(s, i, off, j) ==
    IF i > Len(s) THEN 0
    ELSE s[i] * (off + i + j) + WSum(s, i + 1, off, j)

\* the keystream byte of AES-GCM's counter mode at position i
KeyStream(key, nonce, i) ==
    (key * 31 + WSum(nonce, 1, 0, 0) * 7 + i * 13 + 5) % 256

\* byte j of the authentication tag over the nonce and the ciphertext
Mac(key, nonce, ct, j) ==
    (key * j * 17 + WSum(nonce, 1, 0, j) + WSum(ct, 1, NonceSize, j)
       + Len(ct) * (2 * j + 1)) % 256

Mask(key, nonce, pt) ==
    [i \in 1..Len(pt) |-> (pt[i] + KeyStream(key, nonce, i)) % 256]

Unmask(key, nonce, ct) ==
    [i \in 1..Len(ct) |-> (ct[i] + 256 - KeyStream(key, nonce, i)) % 256]

Tag(key, nonce, ct) == [j \in 1..TagSize |-> Mac(key, nonce, ct, j)]

\* newGCM: aes.NewCipher rejects key lengths other than 16, 24 and 32
newGCM(key) ==
    [key |-> key,
     err |-> IF KeySize \in {16, 24, 32} THEN "nil" ELSE "InvalidKey"]

\* gcm.Seal(dst, nonce, plaintext, nil): appends ciphertext and tag to dst
GcmSeal(gcm, dst, nonce, plaintext) ==
    LET ct == Mask(gcm.key, nonce, plaintext)
    IN  dst \o ct \o Tag(gcm.key, nonce, ct)

\* gcm.Open(nil, nonce, ciphertext, nil): the plaintext, or nil and an error
GcmOpen(gcm, nonce, ciphertext) ==
    IF Len(ciphertext) < TagSize
    THEN [plaintext |-> <<>>, err |-> "ErrOpen"]
    ELSE LET ct == Take(ciphertext, Len(ciphertext) - TagSize)
             tag == Drop(ciphertext, Len(ciphertext) - TagSize)
         IN  IF tag = Tag(gcm.key, nonce, ct)
             THEN [plaintext |-> Unmask(gcm.key, nonce, ct), err |-> "nil"]
             ELSE [plaintext |-> <<>>, err |-> "ErrOpen"]

\* newNonce(size): size bytes of the random source
Nonces == {[i \in 1..NonceSize |-> (s * i) % 256] : s \in 1..MaxNonces}

\* ---------------------------------------------------- whole-buffer codec
\* Encrypt sealing into an empty dst: the nonce is not part of the output
Encrypt_NoNoncePrefix(plaintext, key, nonce) ==
    [ciphertext |-> GcmSeal(newGCM(key), <<>>, nonce, plaintext),
     err |-> "nil", sealNonce |-> nonce]

\* Encrypt(plaintext, key), nonce being the value newNonce returned
Encrypt(plaintext, key, nonce) ==
    LET gcm == newGCM(key)
    IN  IF gcm.err # "nil"
        THEN [ciphertext |-> <<>>, err |-> gcm.err, sealNonce |-> <<>>]
        ELSE [ciphertext |-> GcmSeal(gcm, nonce, nonce, plaintext),
              err |-> "nil", sealNonce |-> nonce]

\* Decrypt splitting the body one byte early
Decrypt_BodyOffByOne(ciphertext, key) ==
    IF Len(ciphertext) < NonceSize
    THEN [plaintext |-> <<>>, err |-> "ErrShort", opened |-> FALSE,
          openNonce |-> <<>>, openBody |-> <<>>]
    ELSE LET nonce == SubSeq(ciphertext, 1, NonceSize)
             body == SubSeq(ciphertext, NonceSize, Len(ciphertext))
             r == GcmOpen(newGCM(key), nonce, body)
         IN  [plaintext |-> r.plaintext, err |-> r.err, opened |-> TRUE,
              openNonce |-> nonce, openBody |-> body]

\* Decrypt dropping the error of gcm.Open and returning the unmasked bytes
Decrypt_DropsOpenErr(ciphertext, key) ==
    IF Len(ciphertext) < NonceSize
    THEN [plaintext |-> <<>>, err |-> "ErrShort", opened |-> FALSE,
          openNonce |-> <<>>, openBody |-> <<>>]
    ELSE LET nonce == SubSeq(ciphertext, 1, NonceSize)
             body == SubSeq(ciphertext, NonceSize + 1, Len(ciphertext))
         IN  [plaintext |-> Unmask(key, nonce,
                                   Take(body, IF Len(body) < TagSize THEN 0
                                              ELSE Len(body) - TagSize)),
              err |-> "nil", opened |-> TRUE,
              openNonce |-> nonce, openBody |-> body]

\* Decrypt refusing an input of exactly NonceSize bytes
Decrypt_LenCheckInclusive(ciphertext, key) ==
    IF Len(ciphertext) <= NonceSize
    THEN [plaintext |-> <<>>, err |-> "ErrShort", opened |-> FALSE,
          openNonce |-> <<>>, openBody |-> <<>>]
    ELSE LET nonce == SubSeq(ciphertext, 1, NonceSize)
             body == SubSeq(ciphertext, NonceSize + 1, Len(ciphertext))
             r == GcmOpen(newGCM(key), nonce, body)
         IN  [plaintext |-> r.plaintext, err |-> r.err, opened |-> TRUE,
              openNonce |-> nonce, openBody |-> body]

\* Decrypt(ciphertext, key); opened records whether gcm.Open was called and
\* with which nonce and body
Decrypt(ciphertext, key) ==
    LET gcm == newGCM(key)
    IN  IF Len(ciphertext) < NonceSize
        THEN [plaintext |-> <<>>, err |-> "ErrShort", opened |-> FALSE,
              openNonce |-> <<>>, openBody |-> <<>>]
        ELSE LET nonce == SubSeq(ciphertext, 1, NonceSize)
                 body == SubSeq(ciphertext, NonceSize + 1, Len(ciphertext))
                 r == GcmOpen(gcm, nonce, body)
             IN  [plaintext |-> r.plaintext, err |-> r.err, opened |-> TRUE,
                  openNonce |-> nonce, openBody |-> body]

VARIABLES
    enc,      \* the last Encrypt call: its arguments and its result
    dec,      \* the last Decrypt call: its arguments and its result
    w_key,    \* Writer: the key its gcm was built from
    w_buf,    \* Writer.buf
    sink,     \* Writer.w: the log of the writes it was handed
    sinkMode, \* "accepting": every write is taken in full; "faulty": it may not
    w_pc,     \* "idle", "loop" (inside Write), "returned", "complete", "off"
    w_p,      \* Write's argument p
    w_total,  \* Write's result variable total
    w_iters,  \* loop iterations of the current call
    w_flushes, \* sink writes of the current call
    w_ret,    \* what the last Write returned
    w_input,  \* every byte handed to Write so far, in order
    w_calls,  \* Write calls so far
    rand_calls, \* calls of newNonce made by the Writer so far
    r_key,    \* Reader: the key its gcm was built from
    r_chunk,  \* len(Reader.buf), the chunk size given to NewReader
    r_src,    \* Reader.r: the bytes the source still holds
    r_mode,   \* "whole": a source read returns all it can; "any": it may not
    r_from,   \* where the source's bytes come from: "frames", "cut" (frames
              \* with the end removed), "sink", "none"
    r_plain,  \* the plaintext the source's frames were sealed from
    r_pc,     \* "ready", "panicked", "off"
    r_call,   \* the last Read call: its argument and its result
    r_out,    \* every byte Read has delivered so far, in order
    r_reads   \* Read calls so far

codecVars == <<enc, dec>>

writerVars == <<w_key, w_buf, sink, sinkMode, w_pc, w_p, w_total, w_iters,
                w_flushes, w_ret, w_input, w_calls, rand_calls>>

readerVars == <<r_key, r_chunk, r_src, r_mode, r_from, r_plain, r_pc, r_call,
                r_out, r_reads>>

vars == <<codecVars, writerVars, readerVars>>

NoCall == [called |-> FALSE]

Plaintexts == SeqsUpTo(PlainBytes, MaxLen)

\* s with bit k of its byte i inverted
Tamper(s, i, k) == [s EXCEPT ![i] = FlipBit(s[i], k)]

\* the inputs Decrypt is tried on: the ciphertext Encrypt returned, its
\* one-bit tamperings and its proper prefixes (the empty input among them)
DecryptInputs ==
    LET c == enc.res.ciphertext
    IN  {c} \cup {Tamper(c, i, k) : i \in 1..Len(c), k \in FlipBits}
            \cup {Take(c, n) : n \in 0..(Len(c) - 1)}

\* one call of Encrypt on the arguments drawn, as in TestSmall
DoEncrypt ==
    /\ ~enc.called
    /\ enc' = [enc EXCEPT !.called = TRUE,
                          !.res = Encrypt(enc.plaintext, enc.key, enc.nonce)]
    /\ UNCHANGED dec

\* one call of Decrypt, on an input derived from what Encrypt returned
DoDecrypt ==
    /\ enc.called
    /\ ~dec.called
    /\ \E C \in DecryptInputs, K \in Keys :
           dec' = [called |-> TRUE, ciphertext |-> C, key |-> K,
                   res |-> Decrypt(C, K)]
    /\ UNCHANGED enc

NoResult == [ciphertext |-> <<>>, err |-> "nil", sealNonce |-> <<>>]

CodecOff == enc = NoCall /\ dec = NoCall

\* ----------------------------------------------------------- stream Writer
Zeros(n) == [i \in 1..n |-> 0]

\* NewWriter(w, key, bufSize): the Writer's gcm key and its zeroed buffer
NewWriter(key, bufSize) ==
    LET gcm == newGCM(key)
        size == IF bufSize = 0 THEN DefaultBufSize ELSE bufSize
    IN  [key |-> gcm.key, buf |-> Zeros(size), err |-> gcm.err]

\* copy(dst, src): dst after the copy; Min(Len(dst), Len(src)) bytes move
Copy(dst, src) ==
    [i \in 1..Len(dst) |-> IF i <= Len(src) THEN src[i] ELSE dst[i]]

NoErr == [n |-> 0, err |-> "nil"]

\* what w.w.Write(data) may answer: the count taken and the error
SinkOutcomes(mode, len) ==
    IF mode = "accepting" THEN {[nw |-> len, err |-> "nil"]}
    ELSE {[nw |-> len, err |-> "nil"],
          [nw |-> len - 1, err |-> "nil"],
          [nw |-> len - 1, err |-> "ErrSink"]}

\* the bytes the sink holds: of every write, the part it took
RECURSIVE SinkBytes(_)
SinkBytes(log) ==
    IF log = <<>> THEN <<>>
    ELSE Take(Head(log).data, Head(log).nw) \o SinkBytes(Tail(log))

\* the plaintext chunks the flushes so far were emitting, in order
RECURSIVE Emitted(_)
Emitted(log) ==
    IF log = <<>> THEN <<>> ELSE Head(log).chunk \o Emitted(Tail(log))

WriteInputs == SeqsUpTo(StreamBytes, MaxWrite)

\* a nonce kept from the first call of newNonce and used again
NextDraw_Cached(calls) == IF calls = 0 THEN 1 ELSE calls

\* newNonce(w.gcm.NonceSize()) in the flush: a call of its own, the next read
\* of the random source
NextDraw(calls) == calls + 1

\* a caller enters Write(p)
WriteCall ==
    /\ w_pc \in {"idle", "returned"}
    /\ w_calls < MaxCalls
    /\ \E p \in WriteInputs :
          /\ w_p' = p
          /\ w_input' = w_input \o p
    /\ w_pc' = "loop"
    /\ w_total' = 0
    /\ w_iters' = 0
    /\ w_flushes' = 0
    /\ w_calls' = w_calls + 1
    /\ UNCHANGED <<w_key, w_buf, sink, sinkMode, w_ret, rand_calls>>

\* one iteration of Write's loop, taken while len(p) != 0
WriteIter ==
    /\ w_pc = "loop"
    /\ Len(w_p) # 0
    /\ w_iters < MaxIter
    /\ w_iters' = w_iters + 1
    /\ LET n == Min(Len(w_buf), Len(w_p))
           buf == Copy(w_buf, w_p)
           total == w_total + n
       IN  /\ w_buf' = buf
           /\ IF n = Len(w_buf)
              THEN \E nonce \in Nonces, o \in SinkOutcomes(sinkMode, Len(buf)) :
                      LET ciphertext ==
                              GcmSeal(newGCM(w_key), nonce, nonce, w_p)
                      IN  /\ sink' = Append(sink,
                                 [data |-> buf, nw |-> o.nw, err |-> o.err,
                                  chunk |-> buf, nonce |-> nonce,
                                  drawn |-> NextDraw(rand_calls),
                                  sealed |-> ciphertext])
                          /\ rand_calls' = NextDraw(rand_calls)
                          /\ w_flushes' = w_flushes + 1
                          /\ IF o.err # "nil"
                             THEN /\ w_ret' = [n |-> total + o.nw, err |-> o.err]
                                  /\ w_pc' = "returned"
                                  /\ w_total' = total
                             ELSE \* the error set when nw # len(ciphertext)
                                  \* is assigned to the inner err and dropped
                                  /\ w_total' = total + o.nw
                                  /\ UNCHANGED <<w_ret, w_pc>>
              ELSE /\ w_total' = total
                   /\ UNCHANGED <<sink, w_flushes, w_ret, w_pc, rand_calls>>
    /\ UNCHANGED <<w_key, sinkMode, w_p, w_input, w_calls>>

\* the loop's exit: len(p) = 0, return total, nil
WriteReturn ==
    /\ w_pc = "loop"
    /\ Len(w_p) = 0
    /\ w_ret' = [n |-> w_total, err |-> "nil"]
    /\ w_pc' = "returned"
    /\ UNCHANGED <<w_key, w_buf, sink, sinkMode, w_p, w_total, w_iters,
                   w_flushes, w_input, w_calls, rand_calls>>

\* the caller treats the stream as complete; Writer has no method for it
StreamComplete ==
    /\ w_pc \in {"idle", "returned"}
    /\ w_pc' = "complete"
    /\ UNCHANGED <<w_key, w_buf, sink, sinkMode, w_p, w_total, w_iters,
                   w_flushes, w_ret, w_input, w_calls, rand_calls>>

WriterInit ==
    /\ \E K \in Keys, c \in ChunkSizes :
          LET w == NewWriter(K, c)
          IN  w_key = w.key /\ w_buf = w.buf
    /\ sink = <<>>
    /\ sinkMode \in {"accepting", "faulty"}
    /\ w_pc = "idle"
    /\ w_p = <<>>
    /\ w_total = 0
    /\ w_iters = 0
    /\ w_flushes = 0
    /\ w_ret = NoErr
    /\ w_input = <<>>
    /\ w_calls = 0
    /\ rand_calls = 0

WriterOff ==
    /\ w_key = 1
    /\ w_buf = <<>>
    /\ sink = <<>>
    /\ sinkMode = "accepting"
    /\ w_pc = "off"
    /\ w_p = <<>>
    /\ w_total = 0
    /\ w_iters = 0
    /\ w_flushes = 0
    /\ w_ret = NoErr
    /\ w_input = <<>>
    /\ w_calls = 0
    /\ rand_calls = 0

\* ----------------------------------------------------------- stream Reader
\* NewReader(r, key, bufSize): the Reader's gcm key and len(buf)
NewReader(key, bufSize) ==
    LET gcm == newGCM(key)
        size == IF bufSize = 0 THEN DefaultBufSize ELSE bufSize
    IN  [key |-> gcm.key, chunk |-> size, err |-> gcm.err]

\* what r.r.Read(buf) may answer on a source holding avail bytes: the count
\* of bytes it hands over and the error
SourceOutcomes(mode, avail, want) ==
    LET most == Min(avail, want)
        whole == IF most = 0 THEN [n |-> 0, err |-> "EOF"]
                 ELSE [n |-> most, err |-> "nil"]
    IN  IF mode = "whole" THEN {whole}
        ELSE {whole}
             \cup {[n |-> k, err |-> "nil"] :
                      k \in {0, 1, NonceSize, most - 1} \cap 0..most}
             \cup {[n |-> k, err |-> "ErrSource"] : k \in {0, most}}

NoRead == [called |-> FALSE]

\* a Read that hands the caller the unopened frame body when Open rejects it
ReadResult_CopiesOnErr(key, src, dlen, o) ==
    LET dst == Zeros(dlen)
        base == [called |-> TRUE, dlen |-> dlen, src |-> src,
                 avail |-> Len(src), want |-> dlen + TagSize, pulled |-> o.n,
                 srcErr |-> o.err,
                 asked |-> TRUE, panic |-> FALSE, n |-> 0, err |-> "nil",
                 dst |-> dst]
        ciphertext == Take(src, o.n)
        body == Drop(ciphertext, NonceSize)
    IN  IF dlen < NonceSize
        THEN [base EXCEPT !.err = "ErrDstSmall", !.asked = FALSE,
                          !.want = 0, !.pulled = 0]
        ELSE IF o.err # "nil"
        THEN [base EXCEPT !.err = o.err]
        ELSE IF NonceSize > Len(ciphertext)
        THEN [base EXCEPT !.panic = TRUE]
        ELSE LET r == GcmOpen(newGCM(key),
                              SubSeq(ciphertext, 1, NonceSize), body)
             IN  IF r.err # "nil"
                 THEN [base EXCEPT !.err = r.err,
                                   !.n = Min(dlen, Len(body)),
                                   !.dst = Copy(dst, body)]
                 ELSE [base EXCEPT !.n = Min(dlen, Len(r.plaintext)),
                                   !.dst = Copy(dst, r.plaintext)]

\* Read(p) on a fresh destination p of dlen bytes, the source answering o:
\* the call's result, the destination afterwards, the bytes the source held,
\* the bytes asked of it and the bytes it handed over
ReadResult(key, src, dlen, o) ==
    LET dst == Zeros(dlen)
        want == dlen + TagSize
        base == [called |-> TRUE, dlen |-> dlen, src |-> src,
                 avail |-> Len(src), want |-> want, pulled |-> o.n,
                 srcErr |-> o.err,
                 asked |-> TRUE, panic |-> FALSE, n |-> 0, err |-> "nil",
                 dst |-> dst]
    IN  IF dlen < NonceSize
        THEN [base EXCEPT !.err = "ErrDstSmall", !.asked = FALSE,
                          !.want = 0, !.pulled = 0]
        ELSE IF o.err # "nil"
        THEN [base EXCEPT !.err = o.err]
        ELSE LET ciphertext == Take(src, o.n)
             IN  IF NonceSize > Len(ciphertext)
                 THEN \* ciphertext[r.gcm.NonceSize():] is out of range
                      [base EXCEPT !.panic = TRUE]
                 ELSE LET r == GcmOpen(newGCM(key),
                                       SubSeq(ciphertext, 1, NonceSize),
                                       Drop(ciphertext, NonceSize))
                      IN  IF r.err # "nil"
                          THEN [base EXCEPT !.err = r.err]
                          ELSE [base EXCEPT
                                  !.n = Min(dlen, Len(r.plaintext)),
                                  !.dst = Copy(dst, r.plaintext)]

\* the destination lengths Read is called with
DestLens ==
    {r_chunk - 1, r_chunk, r_chunk + NonceSize,
     r_chunk + NonceSize + TagSize}

\* one call of Reader.Read
RRead ==
    /\ r_pc = "ready"
    /\ r_reads < MaxReads
    /\ \E dlen \in DestLens :
          \E o \in SourceOutcomes(r_mode, Len(r_src), dlen + TagSize) :
             LET res == ReadResult(r_key, r_src, dlen, o)
             IN  /\ r_call' = res
                 /\ r_src' = Drop(r_src, res.pulled)
                 /\ r_out' = r_out \o Take(res.dst, res.n)
                 /\ r_pc' = IF res.panic THEN "panicked" ELSE "ready"
    /\ r_reads' = r_reads + 1
    /\ UNCHANGED <<r_key, r_chunk, r_mode, r_from, r_plain>>

\* the chunks of plaintext p of size c, each sealed into a frame
RECURSIVE Frames(_, _, _, _)
Frames(p, key, c, k) ==
    IF p = <<>> THEN <<>>
    ELSE LET nonce == [i \in 1..NonceSize |-> (k * i + 3) % 256]
         IN  GcmSeal(newGCM(key), nonce, nonce, Take(p, c))
               \o Frames(Drop(p, c), key, c, k + 1)

\* a plaintext longer than the shortest destination Read accepts
LongInput == [i \in 1..(NonceSize + 1) |-> 1 + (i % 2)]

StreamInputs == SeqsUpTo(StreamBytes, MaxStream) \cup {LongInput}

\* the chunk sizes Readers are opened with
ReaderChunkSizes == ChunkSizes \cup {NonceSize + 1}

\* the numbers of bytes missing at the end of a source: none, the final
\* byte, and enough to leave less than a nonce of the last frame
Cuts == {0, 1, TagSize + 4}

\* a Reader opened on a stream of frames sealed under some key with the
\* Reader's chunk size, whole or with its end removed
ReaderInit ==
    /\ \E K \in Keys, c \in ReaderChunkSizes :
          LET r == NewReader(K, c)
          IN  r_key = r.key /\ r_chunk = r.chunk
    /\ r_plain \in StreamInputs
    /\ \E K \in Keys, cut \in Cuts :
          LET frames == Frames(r_plain, K, r_chunk, 1)
          IN  /\ cut <= Len(frames)
              /\ r_src = Take(frames, Len(frames) - cut)
              /\ r_from = IF cut = 0 THEN "frames" ELSE "cut"
    /\ r_mode \in {"whole", "any"}
    /\ r_pc = "ready"
    /\ r_call = NoRead
    /\ r_out = <<>>
    /\ r_reads = 0

ReaderOff ==
    /\ r_key = 1
    /\ r_chunk = 0
    /\ r_src = <<>>
    /\ r_mode = "whole"
    /\ r_from = "none"
    /\ r_plain = <<>>
    /\ r_pc = "off"
    /\ r_call = NoRead
    /\ r_out = <<>>
    /\ r_reads = 0

\* a Reader is opened, with the Writer's key and chunk size, on what the sink
\* holds (TestFiles reads the encrypted file back)
ROpenSink ==
    /\ r_pc = "off"
    /\ sink # <<>>
    /\ LET r == NewReader(w_key, Len(w_buf))
       IN  r_key' = r.key /\ r_chunk' = r.chunk
    /\ r_src' = SinkBytes(sink)
    /\ r_mode' = "whole"
    /\ r_from' = "sink"
    /\ r_plain' = w_input
    /\ r_pc' = "ready"
    /\ UNCHANGED <<r_call, r_out, r_reads>>

\* ---------------------------------------------------------- specifications
\* a Writer, and a Reader reading back what the Writer's sink holds
Init == CodecOff /\ WriterInit /\ ReaderOff

\* the read-back works on the sink as it is when the Reader is opened: the
\* Writer's steps are followed up to that moment
Next ==
    \/ r_pc = "off" /\ WriteCall /\ UNCHANGED <<codecVars, readerVars>>
    \/ r_pc = "off" /\ WriteIter /\ UNCHANGED <<codecVars, readerVars>>
    \/ r_pc = "off" /\ WriteReturn /\ UNCHANGED <<codecVars, readerVars>>
    \/ r_pc = "off" /\ StreamComplete /\ UNCHANGED <<codecVars, readerVars>>
    \/ ROpenSink /\ UNCHANGED <<codecVars, writerVars>>
    \/ RRead /\ UNCHANGED <<codecVars, writerVars>>

Spec == Init /\ [][Next]_vars

\* a Writer alone, its steps and its caller's always taken when possible:
\* Write is sequential code that keeps running
NextWriter ==
    \/ WriteCall /\ UNCHANGED <<codecVars, readerVars>>
    \/ WriteIter /\ UNCHANGED <<codecVars, readerVars>>
    \/ WriteReturn /\ UNCHANGED <<codecVars, readerVars>>
    \/ StreamComplete /\ UNCHANGED <<codecVars, readerVars>>

SpecWriterFair == Init /\ [][NextWriter]_vars /\ WF_vars(NextWriter)

\* a Reader on a stream of frames
InitReader == CodecOff /\ WriterOff /\ ReaderInit

NextReader == RRead /\ UNCHANGED <<codecVars, writerVars>>

SpecReader == InitReader /\ [][NextReader]_vars

CodecInit ==
    /\ \E P \in Plaintexts, K \in Keys, N \in Nonces :
           enc = [called |-> FALSE, plaintext |-> P, key |-> K, nonce |-> N,
                  res |-> NoResult]
    /\ dec = NoCall
    /\ WriterOff
    /\ ReaderOff

CodecNext ==
    \/ DoEncrypt /\ UNCHANGED <<writerVars, readerVars>>
    \/ DoDecrypt /\ UNCHANGED <<writerVars, readerVars>>

SpecCodec == CodecInit /\ [][CodecNext]_vars

\* ------------------------------------------------- whole-buffer properties
\* c is nonce || seal(nonce, P) under key for some plaintext P
IsSealed(c, key) ==
    /\ Len(c) >= NonceSize + TagSize
    /\ LET nonce == SubSeq(c, 1, NonceSize)
           ct == SubSeq(c, NonceSize + 1, Len(c) - TagSize)
       IN  c = GcmSeal(newGCM(key), nonce, nonce, Unmask(key, nonce, ct))

\* c is the ciphertext Encrypt returned with one bit inverted
IsTampered(c) ==
    /\ Len(c) = Len(enc.res.ciphertext)
    /\ Cardinality({i \in 1..Len(c) : c[i] # enc.res.ciphertext[i]}) = 1

\* C1: Encrypt succeeds on every plaintext and key, and Decrypt of what it
\* returned, under the same key, gives back exactly the plaintext with no
\* error.
C1_RoundTrip ==
    /\ enc.called => enc.res.err = "nil"
    /\ (dec.called /\ dec.ciphertext = enc.res.ciphertext /\ dec.key = enc.key)
          => (dec.res.err = "nil" /\ dec.res.plaintext = enc.plaintext)

C1_Witness ==
    /\ dec.called
    /\ dec.ciphertext = enc.res.ciphertext
    /\ dec.key = enc.key
    /\ Len(enc.plaintext) > 1
    /\ dec.res.plaintext = enc.plaintext

\* C3: an input of at least NonceSize bytes that is not nonce || seal(nonce,
\* P) under the key given to Decrypt, in particular a ciphertext with one
\* bit inverted or one sealed under another key, makes Decrypt return the
\* authentication error and no plaintext.
C3_TamperDetected ==
    dec.called =>
        LET rejected == dec.res.err = "ErrOpen" /\ dec.res.plaintext = <<>>
        IN  /\ (Len(dec.ciphertext) >= NonceSize
                  /\ ~IsSealed(dec.ciphertext, dec.key)) => rejected
            /\ IsTampered(dec.ciphertext) => rejected
            /\ (dec.ciphertext = enc.res.ciphertext /\ dec.key # enc.key)
                  => rejected

C3_Witness ==
    /\ dec.called
    /\ IsTampered(dec.ciphertext)
    /\ dec.key = enc.key
    /\ Len(enc.plaintext) > 0
    /\ dec.res.err = "ErrOpen"
    /\ dec.res.plaintext = <<>>

\* C4: Encrypt returns nonce || seal(nonce, plaintext): its first NonceSize
\* bytes are the nonce handed to seal, and its length is the plaintext's
\* plus 28.
C4_EncryptLayout ==
    enc.called =>
        /\ enc.res.err = "nil"
        /\ enc.res.sealNonce = enc.nonce
        /\ Len(enc.res.ciphertext) = Len(enc.plaintext) + 28
        /\ SubSeq(enc.res.ciphertext, 1, NonceSize) = enc.res.sealNonce
        /\ enc.res.ciphertext
             = enc.nonce \o GcmSeal(newGCM(enc.key), <<>>, enc.nonce,
                                    enc.plaintext)

C4_Witness ==
    /\ enc.called
    /\ Len(enc.plaintext) = 2
    /\ Len(enc.res.ciphertext) = 30
    /\ SubSeq(enc.res.ciphertext, 1, NonceSize) = enc.nonce

\* C5: Decrypt of an input shorter than NonceSize returns the malformed-input
\* error and no plaintext without calling open; on any longer input it calls
\* open with the first NonceSize bytes as the nonce and the rest as the body.
C5_DecryptValidation ==
    dec.called =>
        IF Len(dec.ciphertext) < NonceSize
        THEN /\ dec.res.err = "ErrShort"
             /\ dec.res.plaintext = <<>>
             /\ ~dec.res.opened
        ELSE /\ dec.res.opened
             /\ dec.res.openNonce = Take(dec.ciphertext, NonceSize)
             /\ dec.res.openBody = Drop(dec.ciphertext, NonceSize)
             /\ dec.res.err \in {"nil", "ErrOpen"}

C5_Witness ==
    /\ dec.called
    /\ Len(dec.ciphertext) > 0
    /\ Len(dec.ciphertext) < NonceSize
    /\ dec.res.err = "ErrShort"
    /\ ~dec.res.opened

\* ------------------------------------------------------ stream properties
CeilDiv(a, b) == (a + b - 1) \div b

\* the plaintext a sink write carries as a frame sealed under key, if it is one
FramePlain(data, key) ==
    IF IsSealed(data, key)
    THEN Unmask(key, SubSeq(data, 1, NonceSize),
                SubSeq(data, NonceSize + 1, Len(data) - TagSize))
    ELSE <<>>

\* the plaintext of the frames the sink was handed, in order
RECURSIVE SinkPlain(_, _)
SinkPlain(log, key) ==
    IF log = <<>> THEN <<>>
    ELSE FramePlain(Head(log).data, key) \o SinkPlain(Tail(log), key)

\* C2: what a Writer with an accepting sink has put into the sink, read
\* through a Reader with the same key and chunk size, comes back without
\* error as the bytes written, in order: a prefix of them while the stream
\* is being written, all of them at the end of a complete stream.
C2_StreamRoundTrip ==
    (sinkMode = "accepting" /\ r_from = "sink" /\ r_call.called
       /\ r_call.asked)
      => /\ ~r_call.panic
         /\ r_call.err \in {"nil", "EOF"}
         /\ IsPrefix(r_out, w_input)
         /\ (r_call.err = "EOF" /\ w_pc = "complete") => r_out = w_input

\* C6: with a sink that takes every write in full, the bytes Write counts as
\* accepted never exceed its input, the chunks it has emitted are the input's
\* bytes in order, none twice, and it returns len(p) and no error.
C6_WriteAcceptsAll ==
    (sinkMode = "accepting" /\ w_pc \in {"loop", "returned"})
      => /\ w_total <= Len(w_p)
         /\ IsPrefix(Emitted(sink), w_input)
         /\ w_pc = "returned" => (w_ret.n = Len(w_p) /\ w_ret.err = "nil")

\* C7: with a sink that takes every write, a Write call on L bytes flushes at
\* most ceil(L / chunkSize) times.
C7_WriteFlushBound ==
    (sinkMode = "accepting" /\ w_pc \in {"loop", "returned"})
      => w_flushes <= CeilDiv(Len(w_p), Len(w_buf))

\* C8: every byte sequence handed to the sink is one frame nonce ||
\* seal(nonce, chunk) of NonceSize + n + TagSize bytes for the n-byte chunk
\* being flushed, never the unsealed chunk.
C8_SinkGetsFrames ==
    \A i \in 1..Len(sink) :
        /\ sink[i].data = sink[i].nonce
              \o GcmSeal(newGCM(w_key), <<>>, sink[i].nonce, sink[i].chunk)
        /\ Len(sink[i].data) = NonceSize + Len(sink[i].chunk) + TagSize
        /\ sink[i].data # sink[i].chunk

\* C9: a stream whose writes leave r bytes buffered, 0 < r < chunkSize, is
\* eventually complete with those bytes sealed into a final frame in the
\* sink: every input byte has then been emitted.
C9_FinishFlushesTail ==
    (sinkMode = "accepting" /\ w_pc = "loop"
       /\ 0 < Len(w_p) /\ Len(w_p) < Len(w_buf))
      ~> (w_pc = "complete" /\ SinkPlain(sink, w_key) = w_input)

\* C10: a Read asks the source for one frame of chunkSize + NonceSize +
\* TagSize bytes, chunkSize being the size given to NewReader, and takes
\* from a source that hands over all it can exactly that frame, whatever
\* the length of the destination.
C10_ReadFrameSize ==
    (r_call.called /\ r_call.asked)
      => /\ r_call.want = r_chunk + NonceSize + TagSize
         /\ r_call.pulled <= r_chunk + NonceSize + TagSize
         /\ r_mode = "whole" =>
               r_call.pulled
                 = Min(r_call.avail, r_chunk + NonceSize + TagSize)

\* what a source that hands over all it can answers
WholeAnswer(avail, want) ==
    CHOOSE o \in SourceOutcomes("whole", avail, want) : TRUE

\* C11: on a valid frame stream, a Read whose source hands the frame over in
\* a smaller piece (without error) gives the result the same Read gives when
\* the source hands over the whole frame at once.
C11_PartialReadsSameResult ==
    (r_from = "frames" /\ r_call.called /\ r_call.asked
       /\ r_call.srcErr = "nil")
      => LET w == ReadResult(r_key, r_call.src, r_call.dlen,
                             WholeAnswer(r_call.avail, r_call.want))
         IN  /\ ~r_call.panic
             /\ r_call.n = w.n
             /\ r_call.err = w.err
             /\ r_call.dst = w.dst

\* C12: a Read on an exhausted source signals end-of-stream; a Read that
\* finds the source holding a nonzero number of bytes that are only the
\* beginning of a frame fails with an error that is not end-of-stream and
\* delivers nothing.
C12_TruncationDetected ==
    (r_mode = "whole" /\ r_call.called /\ r_call.asked)
      => /\ r_call.avail = 0 => (r_call.err = "EOF" /\ r_call.n = 0)
         /\ (r_from = "cut" /\ 0 < r_call.avail
               /\ r_call.avail <= r_chunk + NonceSize + TagSize)
              => /\ ~r_call.panic
                 /\ r_call.err \notin {"nil", "EOF"}
                 /\ r_call.n = 0
                 /\ r_call.dst = Zeros(r_call.dlen)

\* C13: a first Read whose destination is shorter than the plaintext of the
\* stream's first frame fails with the destination-too-small error and
\* leaves the destination untouched.
C13_DestinationTooSmall ==
    (r_from = "frames" /\ r_mode = "whole" /\ r_call.called /\ r_reads = 1
       /\ r_call.dlen < Min(Len(r_plain), r_chunk)
       /\ IsSealed(Take(r_call.src, NonceSize + Min(Len(r_plain), r_chunk)
                                      + TagSize), r_key))
      => /\ r_call.err = "ErrDstSmall"
         /\ r_call.n = 0
         /\ r_call.dst = Zeros(r_call.dlen)

\* C14: once a Write or a Read on a stream has failed, no later step writes
\* to the sink, reads the source or delivers plaintext, and a later Read
\* ends with an error.
C14_ErrorsTerminal ==
    [][/\ (w_pc \in {"returned", "loop"} /\ w_ret.err # "nil")
            => sink' = sink
       /\ (r_call.called /\ r_call.err \in {"ErrOpen", "ErrSource"})
            => /\ r_src' = r_src
               /\ r_out' = r_out
               /\ r_call' # r_call => r_call'.err # "nil"]_vars

\* the sink took less than it was handed in its write i
ShortWrite(i) == sink[i].nw < Len(sink[i].data)

\* C15: when the sink takes fewer bytes than it was handed, with or without
\* reporting an error, the Write in progress returns an error and hands the
\* sink nothing more.
C15_ShortWriteIsError ==
    w_calls = 1 =>
        \A i \in 1..Len(sink) :
            ShortWrite(i) => /\ i = Len(sink)
                             /\ w_pc \in {"returned", "complete"}
                             /\ w_ret.err # "nil"

C17_BufferingPersists ==
    sinkMode = "accepting" =>
        LET c == Len(w_buf)
        IN  /\ Len(sink) <= Len(w_input) \div c
            /\ \A i \in 1..Len(sink) :
                  sink[i].chunk = SubSeq(w_input, (i - 1) * c + 1, i * c)

\* C18: a Read that ends with an error reports 0 bytes and leaves the
\* destination as it was.
C18_FailedReadDeliversNothing ==
    (r_call.called /\ r_call.err # "nil")
      => /\ r_call.n = 0
         /\ r_call.dst = Zeros(r_call.dlen)

C18_Witness ==
    /\ r_call.called
    /\ r_call.err = "ErrOpen"
    /\ r_call.pulled > NonceSize
    /\ r_call.n = 0
    /\ r_call.dst = Zeros(r_call.dlen)

\* C19: the count a Write returns lies between 0 and the length of the
\* bytes it was called with.
C19_WriteCountInRange ==
    w_pc = "returned" => (0 <= w_ret.n /\ w_ret.n <= Len(w_p))

\* C20: Reader.Read always returns, with a count or an error: no call ends
\* in a run-time fault.
C20_ReadNeverFaults ==
    r_pc # "panicked"
====
